---- MODULE Spec2Model ----
(***************************************************************************)
(* Model of use-timeline (src/src/index.ts, src/src/utils.ts): a bounded   *)
(* undo/redo timeline.  The engine functions (_insert, _undoTo, _redoTo,   *)
(* _jumpTo, _clearTimeline, _initState) are pure operators; four           *)
(* specifications drive them:                                              *)
(*   Spec        the engine called directly, every argument free;          *)
(*   InsertSpec  initialize followed by inserts only, with a fixed cap;    *)
(*   HookSpec    the operations returned by useTimeline, with the cap      *)
(*               fixed by the options, one update per render;              *)
(*   QueueSpec   the same operations, several of them queued by one event  *)
(*               handler before the host applies them.                     *)
(* Timelines are TLA+ sequences (1-based); indices stay 0-based as in the  *)
(* source, so timeline[i] of the source is timeline[i + 1] here.           *)
(***************************************************************************)
EXTENDS Integers, Sequences, FiniteSets, TLC

VARIABLES
    state,            \* the stored UndoableState: [timeline, index]
    maxTimelineSize,  \* the cap the hook closes over
    last,             \* history: the last call, its arguments and the state it was given
    log,              \* history: the values of a run of initialize and inserts with one cap
    queue,            \* the updaters handed to _setState since the last render
    applied           \* how many of them the host has applied

vars == <<state, maxTimelineSize, last, log, queue, applied>>

----------------------------------------------------------------------------
(* Bounds *)

NumValues == 2     \* plain snapshot values are 0 .. NumValues - 1
MaxLen == 4        \* inserts that would make the timeline longer are not taken
MaxCap == 3        \* explicit caps are 0 .. MaxCap
TargetSlack == 2   \* targets range from -TargetSlack to MaxLen - 1 + TargetSlack
MaxInserts == 5    \* a run of inserts is logged up to this many inserts
MaxQueue == 2      \* updates one event handler queues before the host applies them

----------------------------------------------------------------------------
(* Values of type T, and the SetStateArg variants *)

Plain(n) == [kind |-> "value", v |-> n]
Fn(n) == [kind |-> "function", v |-> n]
Undefined == [kind |-> "undefined", v |-> 0]

Plains == {Plain(n) : n \in 0..(NumValues - 1)}
Fns == {Fn(1)}
SetStateArgs == Plains \cup Fns \cup {Undefined}

\* The callables handed to the hook: Fn(n) is
\*   (s) => typeof s === "number" ? (s + n) % NumValues : n
\* so that the zero-argument call of _initState yields n.
Call(f, x) ==
    IF x.kind = "value" THEN Plain((x.v + f.v) % NumValues) ELSE Plain(f.v % NumValues)

\* utils.ts: truthy exactly for function values
isFunction(value) == value.kind = "function"

----------------------------------------------------------------------------
(* Array primitives of the language, as the source uses them *)

Max2(a, b) == IF a > b THEN a ELSE b
Min2(a, b) == IF a < b THEN a ELSE b

\* Array.prototype.slice(start, end): negative arguments count from the end,
\* both are clamped to [0, length]
Slice(arr, start, end) ==
    LET len == Len(arr)
        k == IF start < 0 THEN Max2(len + start, 0) ELSE Min2(start, len)
        final == IF end < 0 THEN Max2(len + end, 0) ELSE Min2(end, len)
    IN SubSeq(arr, k + 1, final)

\* arr[i]: undefined outside the array
At(arr, i) == IF i >= 0 /\ i < Len(arr) THEN arr[i + 1] ELSE Undefined

----------------------------------------------------------------------------
(* The engine: index.ts *)

_newState(timeline, index) == [timeline |-> timeline, index |-> index]

\* mutant: the guard on the index is off by one
_canUndoTo_mut(s, to) == s.index >= 0 /\ to < s.index
_canUndoTo(s, to) == s.index > 0 /\ to < s.index

\* mutant: the last position is not a redo target
_canRedoTo_mut(s, to) == to < Len(s.timeline) - 1 /\ to > s.index
_canRedoTo(s, to) == to < Len(s.timeline) /\ to > s.index

_getPast(s) ==
    LET sl == Slice(s.timeline, 0, s.index)
    IN [i \in 1..Len(sl) |-> [timeSlice |-> sl[i], index |-> i - 1]]

\* mutant: the positions are relative to the slice
_getFuture_relative(s) ==
    LET sl == Slice(s.timeline, s.index + 1, Len(s.timeline))
    IN [i \in 1..Len(sl) |-> [timeSlice |-> sl[i], index |-> i - 1]]
_getFuture(s) ==
    LET sl == Slice(s.timeline, s.index + 1, Len(s.timeline))
    IN [i \in 1..Len(sl) |-> [timeSlice |-> sl[i], index |-> s.index + 1 + (i - 1)]]

\* mutant: the future is kept, the new slice is appended after it
_insert_keepFuture(s, timeSlice, max) ==
    LET startIndex == IF s.index = max THEN 1 ELSE 0
        past == Slice(s.timeline, startIndex, Len(s.timeline))
        newIndex == IF s.index = max THEN s.index ELSE s.index + 1
    IN _newState(Append(past, timeSlice), newIndex)
\* mutant: at the cap the current entry is dropped instead of the oldest
_insert_evictNewest(s, timeSlice, max) ==
    LET past == IF s.index = max
                THEN Slice(s.timeline, 0, s.index)
                ELSE Slice(s.timeline, 0, s.index + 1)
        newIndex == IF s.index = max THEN s.index ELSE s.index + 1
    IN _newState(Append(past, timeSlice), newIndex)
\* mutant: the oldest entry is never evicted
_insert_noEvict(s, timeSlice, max) ==
    _newState(Append(Slice(s.timeline, 0, s.index + 1), timeSlice), s.index + 1)
\* mutant: the new slice takes the place of the current one
_insert_replaceCurrent(s, timeSlice, max) ==
    _newState(Append(Slice(s.timeline, 0, s.index), timeSlice), s.index)
\* mutant: the index is not advanced
_insert_noAdvance(s, timeSlice, max) ==
    LET startIndex == IF s.index = max THEN 1 ELSE 0
        past == Slice(s.timeline, startIndex, s.index + 1)
    IN _newState(Append(past, timeSlice), s.index)
_insert(s, timeSlice, max) ==
    LET startIndex == IF s.index = max THEN 1 ELSE 0
        past == Slice(s.timeline, startIndex, s.index + 1)
        newTimeline == Append(past, timeSlice)
        newIndex == IF s.index = max THEN s.index ELSE s.index + 1
    IN _newState(newTimeline, newIndex)

\* mutant: undoing also cuts the timeline after the target
_undoTo_truncate(s, to) ==
    IF ~_canUndoTo(s, to) THEN s ELSE _newState(Slice(s.timeline, 0, to + 1), to)
_undoTo(s, to) == IF ~_canUndoTo(s, to) THEN s ELSE _newState(s.timeline, to)

_redoTo(s, to) == IF ~_canRedoTo(s, to) THEN s ELSE _newState(s.timeline, to)

\* mutant: negative targets are not rejected
_jumpTo_noLowerBound(s, to) ==
    IF to > Len(s.timeline) - 1 THEN s ELSE _newState(s.timeline, to)
\* mutant: the upper bound check is off by one
_jumpTo_mut(s, to) ==
    IF to < 0 \/ to > Len(s.timeline) THEN s ELSE _newState(s.timeline, to)
_jumpTo(s, to) ==
    IF to < 0 \/ to > Len(s.timeline) - 1 THEN s ELSE _newState(s.timeline, to)

_getCurrentTimeSlice(s) == At(s.timeline, s.index)

\* mutant: the cursor is not reset
_clearTimeline_keepIndex(s) == _newState(<<_getCurrentTimeSlice(s)>>, s.index)
\* mutant: the first entry is kept instead of the current one
_clearTimeline_mut(s) == _newState(<<At(s.timeline, 0)>>, 0)
_clearTimeline(s) == _newState(<<_getCurrentTimeSlice(s)>>, 0)

\* line 134 calls the initializer, line 136 then assigns unconditionally
_initState(initialValue) ==
    LET called == IF isFunction(initialValue) THEN Call(initialValue, Undefined) ELSE Undefined
        _initialTimeSlice == initialValue
    IN _newState(<<_initialTimeSlice>>, 0)

InsertDefaultMax == 5
DefaultMaxTimelineSize == 20

\* line 206 and 207
canUndo == _canUndoTo(state, state.index - 1)
canRedo == _canRedoTo(state, state.index + 1)

----------------------------------------------------------------------------
(* Engine called directly: Spec *)

Targets == (0 - TargetSlack)..(MaxLen - 1 + TargetSlack)
MaxSizes == (0..MaxCap) \cup {InsertDefaultMax}

Called(op, value, to, max) ==
    [op |-> op, value |-> value, to |-> to, max |-> max, pre |-> state]

\* The log of a run: initialize, then inserts that all use the same cap.
\* Any other call, a different cap or a longer run ends the logging.
NoLog == [tracking |-> FALSE, fixed |-> FALSE, max |-> 0, values |-> <<>>]

StartLog(initialValue) ==
    [tracking |-> TRUE, fixed |-> FALSE, max |-> 0, values |-> <<initialValue>>]

LogInsert(l, timeSlice, max) ==
    IF l.tracking /\ (~l.fixed \/ l.max = max) /\ Len(l.values) <= MaxInserts
    THEN [tracking |-> TRUE, fixed |-> TRUE, max |-> max,
          values |-> Append(l.values, timeSlice)]
    ELSE NoLog

Init ==
    \E initialValue \in SetStateArgs :
        /\ state = _initState(initialValue)
        /\ maxTimelineSize = DefaultMaxTimelineSize
        /\ last = [op |-> "initialize", value |-> initialValue, to |-> 0, max |-> 0,
                   pre |-> _initState(initialValue)]
        /\ log = StartLog(initialValue)
        /\ queue = <<>>
        /\ applied = 0

Insert(timeSlice, max) ==
    /\ Len(_insert(state, timeSlice, max).timeline) <= MaxLen
    /\ state' = _insert(state, timeSlice, max)
    /\ last' = Called("insert", timeSlice, 0, max)
    /\ log' = LogInsert(log, timeSlice, max)
    /\ UNCHANGED <<maxTimelineSize, queue, applied>>

UndoTo(to) ==
    /\ state' = _undoTo(state, to)
    /\ last' = Called("undoTo", Undefined, to, 0)
    /\ log' = NoLog
    /\ UNCHANGED <<maxTimelineSize, queue, applied>>

RedoTo(to) ==
    /\ state' = _redoTo(state, to)
    /\ last' = Called("redoTo", Undefined, to, 0)
    /\ log' = NoLog
    /\ UNCHANGED <<maxTimelineSize, queue, applied>>

JumpTo(to) ==
    /\ state' = _jumpTo(state, to)
    /\ last' = Called("jumpTo", Undefined, to, 0)
    /\ log' = NoLog
    /\ UNCHANGED <<maxTimelineSize, queue, applied>>

Clear ==
    /\ state' = _clearTimeline(state)
    /\ last' = Called("clear", Undefined, 0, 0)
    /\ log' = NoLog
    /\ UNCHANGED <<maxTimelineSize, queue, applied>>

Next ==
    \/ \E timeSlice \in Plains, max \in MaxSizes : Insert(timeSlice, max)
    \/ \E to \in Targets : UndoTo(to)
    \/ \E to \in Targets : RedoTo(to)
    \/ \E to \in Targets : JumpTo(to)
    \/ Clear

Spec == Init /\ [][Next]_vars

----------------------------------------------------------------------------
(* initialize followed by inserts with one fixed cap: InsertSpec *)

InsertInit ==
    \E initialValue \in SetStateArgs, max \in 1..MaxCap :
        /\ state = _initState(initialValue)
        /\ maxTimelineSize = max
        /\ last = [op |-> "initialize", value |-> initialValue, to |-> 0, max |-> max,
                   pre |-> _initState(initialValue)]
        /\ log = StartLog(initialValue)
        /\ queue = <<>>
        /\ applied = 0

InsertNext == \E timeSlice \in Plains : Insert(timeSlice, maxTimelineSize)

InsertSpec == InsertInit /\ [][InsertNext]_vars

----------------------------------------------------------------------------
(* The hook: useTimeline, index.ts lines 144 to 209 *)

NoOptions == [given |-> FALSE, maxTimelineSize |-> 0]
OptionsArgs == {NoOptions} \cup {[given |-> TRUE, maxTimelineSize |-> m] : m \in 0..MaxCap}

\* { ...defaultOptions, ...options }
MergedMaxTimelineSize(options) ==
    IF options.given THEN options.maxTimelineSize ELSE DefaultMaxTimelineSize

HookInit ==
    \E initialValue \in SetStateArgs, options \in OptionsArgs :
        /\ state = _initState(initialValue)
        /\ maxTimelineSize = MergedMaxTimelineSize(options)
        /\ last = [op |-> "initialize", value |-> initialValue, to |-> 0,
                   max |-> MergedMaxTimelineSize(options),
                   pre |-> _initState(initialValue)]
        /\ log = NoLog
        /\ queue = <<>>
        /\ applied = 0

\* the updater handed to _setState by setState, applied to the stored state
setStateUpdater(s, arg) ==
    LET timeSlice == _getCurrentTimeSlice(s)
    IN IF isFunction(arg)
       THEN _insert(s, Call(arg, timeSlice), maxTimelineSize)
       ELSE _insert(s, arg, maxTimelineSize)

setState(arg) ==
    /\ Len(setStateUpdater(state, arg).timeline) <= MaxLen
    /\ state' = setStateUpdater(state, arg)
    /\ last' = Called("setState", arg, 0, maxTimelineSize)
    /\ UNCHANGED <<maxTimelineSize, log, queue, applied>>

\* the updaters handed to _setState by undo, redo, jumpTo and clearTimeline
\* mutant: undo goes back two steps
undoUpdater_twoSteps(s) == _undoTo(s, s.index - 2)
undoUpdater(s) == _undoTo(s, s.index - 1)

redoUpdater(s) == _redoTo(s, s.index + 1)

jumpToUpdater(s, index) == _jumpTo(s, index)

clearTimelineUpdater(s) == _clearTimeline(s)

undo ==
    /\ state' = undoUpdater(state)
    /\ last' = Called("undo", Undefined, state.index - 1, maxTimelineSize)
    /\ UNCHANGED <<maxTimelineSize, log, queue, applied>>

redo ==
    /\ state' = redoUpdater(state)
    /\ last' = Called("redo", Undefined, state.index + 1, maxTimelineSize)
    /\ UNCHANGED <<maxTimelineSize, log, queue, applied>>

jumpTo(index) ==
    /\ state' = jumpToUpdater(state, index)
    /\ last' = Called("jumpTo", Undefined, index, maxTimelineSize)
    /\ UNCHANGED <<maxTimelineSize, log, queue, applied>>

clearTimeline ==
    /\ state' = clearTimelineUpdater(state)
    /\ last' = Called("clearTimeline", Undefined, 0, maxTimelineSize)
    /\ UNCHANGED <<maxTimelineSize, log, queue, applied>>

HookNext ==
    \/ \E arg \in SetStateArgs : setState(arg)
    \/ undo
    \/ redo
    \/ \E index \in Targets : jumpTo(index)
    \/ clearTimeline

HookSpec == HookInit /\ [][HookNext]_vars

----------------------------------------------------------------------------
(* The hook with queued updates: QueueSpec *)
(* Each operation of the hook only hands an updater (s) => ... to          *)
(* _setState.  An event handler may call several operations before the     *)
(* host renders again; the host then applies the queued updaters one after *)
(* another, each to the state the previous one returned.  `last` is not    *)
(* recorded here.                                                          *)

QueueArgs == {Plain(0), Fn(1)}
QueueTargets == (0 - 1)..1

\* A queued updater: the operation, its arguments, and the _state of the
\* render whose closure made the call
Entry(op, value, to) == [op |-> op, value |-> value, to |-> to, seen |-> state]

\* mutant: the updaters work on the _state of the render that made the call
Updater_stale(e, s) ==
    CASE e.op = "setState" -> setStateUpdater(e.seen, e.value)
      [] e.op = "undo" -> undoUpdater(e.seen)
      [] e.op = "redo" -> redoUpdater(e.seen)
      [] e.op = "jumpTo" -> jumpToUpdater(e.seen, e.to)
      [] e.op = "clearTimeline" -> clearTimelineUpdater(e.seen)
\* the updater of a call, applied by the host to the state s it holds
Updater(e, s) ==
    CASE e.op = "setState" -> setStateUpdater(s, e.value)
      [] e.op = "undo" -> undoUpdater(s)
      [] e.op = "redo" -> redoUpdater(s)
      [] e.op = "jumpTo" -> jumpToUpdater(s, e.to)
      [] e.op = "clearTimeline" -> clearTimelineUpdater(s)

QueueInit ==
    \E initialValue \in QueueArgs, options \in {o \in OptionsArgs : o.given} :
        /\ state = _initState(initialValue)
        /\ maxTimelineSize = MergedMaxTimelineSize(options)
        /\ last = [op |-> "initialize", value |-> initialValue, to |-> 0,
                   max |-> MergedMaxTimelineSize(options),
                   pre |-> _initState(initialValue)]
        /\ log = NoLog
        /\ queue = <<>>
        /\ applied = 0

\* _setState(updater): a call after a render starts a new batch, a call in
\* the same event handler joins the batch
Enqueue(e) ==
    /\ applied = Len(queue) \/ (applied = 0 /\ Len(queue) < MaxQueue)
    /\ queue' = IF applied = Len(queue) THEN <<e>> ELSE Append(queue, e)
    /\ applied' = 0
    /\ UNCHANGED <<state, maxTimelineSize, last, log>>

setStateCall(arg) == Enqueue(Entry("setState", arg, 0))

undoCall == Enqueue(Entry("undo", Undefined, 0))

redoCall == Enqueue(Entry("redo", Undefined, 0))

jumpToCall(index) == Enqueue(Entry("jumpTo", Undefined, index))

clearTimelineCall == Enqueue(Entry("clearTimeline", Undefined, 0))

\* the host applies the next queued updater to the stored state
applyUpdate ==
    /\ applied < Len(queue)
    /\ state' = Updater(queue[applied + 1], state)
    /\ applied' = applied + 1
    /\ UNCHANGED <<maxTimelineSize, last, log, queue>>

QueueNext ==
    \/ \E arg \in QueueArgs : setStateCall(arg)
    \/ undoCall
    \/ redoCall
    \/ \E index \in QueueTargets : jumpToCall(index)
    \/ clearTimelineCall
    \/ applyUpdate

QueueSpec == QueueInit /\ [][QueueNext]_vars

----------------------------------------------------------------------------
(* Properties *)

\* The data model's invariants 1 and 2 on a state
Valid(s) ==
    /\ Len(s.timeline) >= 1
    /\ 0 <= s.index
    /\ s.index < Len(s.timeline)

OutOfRange(s, to) == to < 0 \/ to > Len(s.timeline) - 1

\* C1 (Spec): after initialize and after every engine call (insert, undoTo,
\* redoTo, jumpTo with any integer target, clear) the timeline is non-empty
\* and 0 <= index < length(timeline).
C1_InvariantPreservation == Valid(state)

\* C2 (InsertSpec): from initialize, under consecutive inserts with one fixed
\* positive maxTimelineSize, length(timeline) never exceeds maxTimelineSize.
C2_InsertCap == Len(state.timeline) <= maxTimelineSize

\* C3 (Spec): insert on a valid state, with any value and any cap, returns a
\* state with an empty future: index = length(timeline) - 1 and canRedo false.
C3_InsertErasesFuture ==
    (last.op = "insert" /\ Valid(last.pre)) =>
        /\ _getFuture(state) = <<>>
        /\ state.index = Len(state.timeline) - 1
        /\ ~canRedo

\* C3 witness: an insert has acted on a valid state that had a future
C3_Witness ==
    /\ last.op = "insert"
    /\ Valid(last.pre)
    /\ last.pre.index < Len(last.pre.timeline) - 1

\* C4 (Spec): undoTo, redoTo and jumpTo of a valid state with a target outside
\* [0, length(timeline) - 1] return the state they were given, unchanged.
C4_OutOfRangeNoOp ==
    ( /\ last.op \in {"undoTo", "redoTo", "jumpTo"}
      /\ Valid(last.pre)
      /\ OutOfRange(last.pre, last.to) ) => state = last.pre

\* C5 (Spec): initialize with a callable seeds the timeline with the result of
\* calling it, and with any other value seeds it with that value; index is 0.
C5_InitializeSeed ==
    last.op = "initialize" =>
        state = [timeline |-> << IF last.value.kind = "function"
                                 THEN Call(last.value, Undefined)
                                 ELSE last.value >>,
                 index |-> 0]

\* C6 (Spec): insert of v on a valid state whose index differs from the cap
\* returns timeline[0..index] in order followed by v, with index + 1 as the
\* new index and v as the current value; what was after the cursor is gone.
C6_InsertOverwritesBranch ==
    (last.op = "insert" /\ Valid(last.pre) /\ last.pre.index # last.max) =>
        /\ state.timeline = Append(SubSeq(last.pre.timeline, 1, last.pre.index + 1), last.value)
        /\ state.index = last.pre.index + 1
        /\ _getCurrentTimeSlice(state) = last.value

\* C6 witness: the spec's trace shape, an insert with the cap 5 at index 1 of
\* a three-element timeline, which drops the third element
C6_Witness ==
    /\ last.op = "insert"
    /\ last.max = InsertDefaultMax
    /\ Len(last.pre.timeline) = 3
    /\ last.pre.index = 1
    /\ last.pre.timeline[3] # last.value
    /\ state.timeline = <<last.pre.timeline[1], last.pre.timeline[2], last.value>>

\* C7 (Spec): when undoTo(index - 1) was applied to a valid state of length
\* >= 2 with the index at the last position, a redoTo(index + 1) applied to
\* its result returns the original state: same timeline, index and current.
C7_UndoRedoRoundTrip ==
    [][ ( /\ last.op = "undoTo"
          /\ Valid(last.pre)
          /\ Len(last.pre.timeline) >= 2
          /\ last.pre.index = Len(last.pre.timeline) - 1
          /\ last.to = last.pre.index - 1
          /\ last'.op = "redoTo"
          /\ last'.to = state.index + 1 )
        => ( /\ state' = last.pre
             /\ _getCurrentTimeSlice(state') = _getCurrentTimeSlice(last.pre) ) ]_vars

\* C7 witness: a redoTo(index + 1) has moved the cursor of a state, one
\* before the last position, onto the last position of a timeline of length >= 2
C7_Witness ==
    /\ last.op = "redoTo"
    /\ Valid(last.pre)
    /\ last.to = last.pre.index + 1
    /\ Len(state.timeline) >= 2
    /\ state.index = Len(state.timeline) - 1
    /\ state.index = last.pre.index + 1

\* C8 (Spec): on a valid state jumpTo(-1) and jumpTo(length(timeline)) return
\* the state unchanged, and jumpTo(k) with 0 <= k < length(timeline) returns
\* the same timeline with index = k, whatever the old index was.
C8_JumpBounds ==
    (last.op = "jumpTo" /\ Valid(last.pre)) =>
        /\ (last.to = -1 \/ last.to = Len(last.pre.timeline)) => state = last.pre
        /\ (0 <= last.to /\ last.to < Len(last.pre.timeline)) =>
               (state.index = last.to /\ state.timeline = last.pre.timeline)

\* C8 witness: a jump backwards over more than one position has acted
C8_Witness ==
    /\ last.op = "jumpTo"
    /\ Valid(last.pre)
    /\ last.to < last.pre.index - 1
    /\ state.index = last.to

\* C9 (HookSpec): in every state the hook reaches, canUndo is false exactly
\* when index = 0 and canRedo is false exactly when index = length - 1.
C9_CanUndoCanRedo ==
    /\ (~canUndo) <=> (state.index = 0)
    /\ (~canRedo) <=> (state.index = Len(state.timeline) - 1)

\* C9 witness: the hook is in the middle of a timeline, both are true
C9_Witness ==
    /\ last.op \in {"undo", "redo", "jumpTo"}
    /\ state.index > 0
    /\ state.index < Len(state.timeline) - 1
    /\ canUndo
    /\ canRedo

\* C10 (Spec): clear on a valid state returns the one-element timeline holding
\* the current value with index 0; past and future are then empty and canUndo
\* and canRedo are false.
C10_Clear ==
    (last.op = "clear" /\ Valid(last.pre)) =>
        /\ state = [timeline |-> <<last.pre.timeline[last.pre.index + 1]>>, index |-> 0]
        /\ _getPast(state) = <<>>
        /\ _getFuture(state) = <<>>
        /\ ~canUndo
        /\ ~canRedo

\* C10 witness: clear has acted on a valid state with a past and a future
\* whose current value is not its first entry
C10_Witness ==
    /\ last.op = "clear"
    /\ Valid(last.pre)
    /\ last.pre.index > 0
    /\ last.pre.index < Len(last.pre.timeline) - 1
    /\ last.pre.timeline[last.pre.index + 1] # last.pre.timeline[1]

\* C11 (Spec): clear is idempotent: on the state a clear returned, whatever
\* state it was given, a second clear returns that same state.
C11_ClearIdempotent ==
    last.op = "clear" => _clearTimeline(state) = state

\* C11 witness: a clear has acted on a longer timeline with the cursor off 0
C11_Witness ==
    /\ last.op = "clear"
    /\ Len(last.pre.timeline) >= 2
    /\ last.pre.index > 0

\* C12 (HookSpec): undo() with canUndo true decreases the index by exactly 1
\* and makes timeline[index - 1] the current state; redo() with canRedo true
\* increases it by exactly 1 and makes timeline[index + 1] current; with
\* canUndo (canRedo) false, undo() (redo()) leaves the state unchanged.
C12_OneStep ==
    /\ last.op = "undo" =>
        IF _canUndoTo(last.pre, last.pre.index - 1)
        THEN /\ state.index = last.pre.index - 1
             /\ state.timeline = last.pre.timeline
             /\ _getCurrentTimeSlice(state) = last.pre.timeline[last.pre.index]
        ELSE state = last.pre
    /\ last.op = "redo" =>
        IF _canRedoTo(last.pre, last.pre.index + 1)
        THEN /\ state.index = last.pre.index + 1
             /\ state.timeline = last.pre.timeline
             /\ _getCurrentTimeSlice(state) = last.pre.timeline[last.pre.index + 2]
        ELSE state = last.pre

\* C12 witness: an undo has moved the cursor from at least 2 back by one
C12_Witness ==
    /\ last.op = "undo"
    /\ last.pre.index >= 2
    /\ state.index = last.pre.index - 1

\* The (value, position) pairs of the positions lo .. hi of a timeline
Pairs(timeline, lo, hi) ==
    [i \in 1..(hi - lo + 1) |-> [timeSlice |-> timeline[lo + i], index |-> lo + i - 1]]

\* C13 (Spec): on a valid state, past is the ordered list of (timeline[i], i)
\* for 0 <= i < index and future the ordered list of (timeline[i], i) for
\* index < i < length; and jumpTo to the position of an entry of either view
\* makes that entry's value the current one.
C13_AbsolutePositions ==
    /\ Valid(state) =>
        /\ _getPast(state) = Pairs(state.timeline, 0, state.index - 1)
        /\ _getFuture(state) = Pairs(state.timeline, state.index + 1, Len(state.timeline) - 1)
    /\ (last.op = "jumpTo" /\ Valid(last.pre)) =>
        \A view \in {_getPast(last.pre), _getFuture(last.pre)} :
            \A i \in DOMAIN view :
                view[i].index = last.to => _getCurrentTimeSlice(state) = view[i].timeSlice

\* C13 witness: a jump has landed on the second entry of a future of two
C13_Witness ==
    /\ last.op = "jumpTo"
    /\ Valid(last.pre)
    /\ Len(_getFuture(last.pre)) = 2
    /\ Len(_getPast(last.pre)) >= 1
    /\ last.to = _getFuture(last.pre)[2].index
    /\ state.index = last.to

\* C15 (Spec): undoTo, redoTo and jumpTo, on any state and with any integer
\* target, return the input timeline element for element, and an index that
\* is the old index or the target.
C15_CursorOnly ==
    last.op \in {"undoTo", "redoTo", "jumpTo"} =>
        /\ state.timeline = last.pre.timeline
        /\ state.index \in {last.pre.index, last.to}

\* C15 witness: an undoTo has moved the cursor and entries remain after it
C15_Witness ==
    /\ last.op = "undoTo"
    /\ state.index = last.to
    /\ last.to < last.pre.index
    /\ last.to >= 0
    /\ Len(state.timeline) > last.pre.index

\* C17 (HookSpec): through setState, undo, redo, jumpTo with any integer and
\* clearTimeline, with a fixed cap >= 0, every state has a non-empty timeline
\* and 0 <= index < length(timeline); undo targets index - 1 and never moves
\* the cursor to a negative target.
C17_HookInvariant ==
    /\ Valid(state)
    /\ last.op = "undo" =>
        /\ last.to = last.pre.index - 1
        /\ last.to < 0 => state = last.pre

\* C17 witness: undo was called at index 0 of a longer timeline: target -1
C17_Witness ==
    /\ last.op = "undo"
    /\ last.to = -1
    /\ Len(last.pre.timeline) >= 2
    /\ state.index = 0

\* C18 (HookSpec): with a fixed cap m >= 0, every state the hook reaches has
\* index <= m and length(timeline) <= m + 1.
C18_BoundedGrowth ==
    /\ state.index <= maxTimelineSize
    /\ Len(state.timeline) <= maxTimelineSize + 1

\* C18 witness: after a move below the cap in a full timeline (m + 1
\* entries), a setState has filled the timeline to m + 1 entries again
C18_Witness ==
    /\ last.op = "setState"
    /\ maxTimelineSize >= 2
    /\ Len(last.pre.timeline) = maxTimelineSize + 1
    /\ last.pre.index = maxTimelineSize - 1
    /\ Len(state.timeline) = maxTimelineSize + 1
    /\ state.index = maxTimelineSize

\* C19 (HookSpec): with a fixed cap >= 1, after setState(v) on a state whose
\* current value is x, canUndo is true and v is current; undo() then makes x
\* current again, and a following redo() makes v current again.
C19_SetStateUndoRedo ==
    (last.op = "setState" /\ maxTimelineSize >= 1) =>
        LET x == _getCurrentTimeSlice(last.pre)
            v == IF last.value.kind = "function" THEN Call(last.value, x) ELSE last.value
            undone == undoUpdater(state)
            redone == redoUpdater(undone)
        IN /\ canUndo
           /\ _getCurrentTimeSlice(state) = v
           /\ _getCurrentTimeSlice(undone) = x
           /\ _getCurrentTimeSlice(redone) = v

\* C19 witness: a setState at the cap has evicted the oldest entry and
\* inserted a value other than the one that was current
C19_Witness ==
    /\ last.op = "setState"
    /\ maxTimelineSize >= 1
    /\ last.pre.index = maxTimelineSize
    /\ Len(state.timeline) = Len(last.pre.timeline)
    /\ _getCurrentTimeSlice(state) # _getCurrentTimeSlice(last.pre)

Effect(e, s) ==
    CASE e.op = "setState" ->
             _insert(s,
                     IF e.value.kind = "function"
                     THEN Call(e.value, _getCurrentTimeSlice(s))
                     ELSE e.value,
                     maxTimelineSize)
      [] e.op = "undo" -> _undoTo(s, s.index - 1)
      [] e.op = "redo" -> _redoTo(s, s.index + 1)
      [] e.op = "jumpTo" -> _jumpTo(s, e.to)
      [] e.op = "clearTimeline" -> _clearTimeline(s)

\* The first k calls of a batch q taking effect one after another, in call
\* order, from the state s
RECURSIVE InOrder(_, _, _)
InOrder(q, k, s) == IF k = 0 THEN s ELSE Effect(q[k], InOrder(q, k - 1, s))

\* f applied k times to x
RECURSIVE Iterate(_, _, _)
Iterate(f, x, k) == IF k = 0 THEN x ELSE Call(f, Iterate(f, x, k - 1))

\* C16 (QueueSpec): queued updates are never lost: when the host has applied
\* the first k updates of a batch, the state is the one the k operations
\* produce one after another in call order from the state at the start of
\* the batch; and k queued setState(f) calls from current value x make the
\* last entries of the timeline f(x), f(f(x)), ... in that order, the last
\* one current.
C16_QueuedUpdates ==
    applied >= 1 =>
        /\ state = InOrder(queue, applied, queue[1].seen)
        /\ (\A i \in 1..applied : queue[i].op = "setState" /\ queue[i].value = Fn(1)) =>
            /\ state.index = Len(state.timeline) - 1
            /\ \A i \in 1..applied :
                   LET pos == Len(state.timeline) - (applied - i)
                   IN pos >= 1 =>
                        state.timeline[pos] =
                            Iterate(Fn(1), _getCurrentTimeSlice(queue[1].seen), i)

\* C16 witness: two setState(f) calls were queued on the same render and both
\* are applied: the last two entries are f(x) and f(f(x)), which differ
C16_Witness ==
    /\ applied = 2
    /\ queue[1].op = "setState" /\ queue[1].value = Fn(1)
    /\ queue[2].op = "setState" /\ queue[2].value = Fn(1)
    /\ queue[1].seen = queue[2].seen
    /\ Len(state.timeline) >= 3
    /\ state.timeline[Len(state.timeline)] # state.timeline[Len(state.timeline) - 1]

====
